---- MODULE Spec2Model ----
(***************************************************************************)
(* The Conversation Agent of the QA artifact generation workflow           *)
(* (src/v2/conversation_agent/conversation_agent.py): generate and review  *)
(* calls over the runs/ directory tree and the .current_run pointer, with  *)
(* the language model as an untrusted oracle whose structured output is    *)
(* any value of the schema (src/v2/conversation_agent/schemas.py).         *)
(***************************************************************************)
EXTENDS Integers, Sequences, FiniteSets, TLC

(***************************************************************************)
(* Bounds of the model.                                                    *)
(***************************************************************************)
\* highest RUN sequence number a generate call may allocate
MaxSeq == 1
\* highest REV sequence number a review call may allocate
MaxRevSeq == 2
\* longest requested_changes list the extraction oracle returns
MaxChanges == 1
\* how many free parts of one extraction answer the oracle fills in
MaxFilled == 1

(***************************************************************************)
(* Values.  A missing file, a missing argument (Python None) and a missing *)
(* dict key are all the record Absent.                                     *)
(***************************************************************************)
Absent == [absent |-> TRUE]

\* _today(): the date string of the calls of one behaviour.
Today == "20261106"

(***************************************************************************)
(* Identifiers.  A request id or directory name "<pre>-<date>-<suf>" is    *)
(* the record of its three parts; suf is its sequence of characters, the   *)
(* digits 0..9 standing for themselves and any larger number for a         *)
(* character that is not a digit.                                          *)
(***************************************************************************)
Name(pre, date, suf) == [pre |-> pre, date |-> date, suf |-> suf]

\* The empty string: falsy in Python, like None.
NoId == Name("", "", <<>>)

\* str.isdigit(): non-empty and every character a digit.
IsDigit(s) == Len(s) > 0 /\ \A i \in 1..Len(s) : s[i] \in 0..9

\* int(s) of a string of digits.
RECURSIVE ToInt(_)
ToInt(s) == IF Len(s) = 0 THEN 0
            ELSE 10 * ToInt(SubSeq(s, 1, Len(s) - 1)) + s[Len(s)]

\* str(n) of a natural number.
RECURSIVE Decimal(_)
Decimal(n) == IF n < 10 THEN <<n>> ELSE Decimal(n \div 10) \o <<n % 10>>

\* f"{n:03d}": zero-padded to at least three digits, never truncated.
Format03d(n) ==
  LET d == Decimal(n)
  IN  IF Len(d) >= 3 THEN d ELSE [i \in 1..(3 - Len(d)) |-> 0] \o d

\* NextSeqOf by counting: len(existing) + 1.
NextSeqOfCount(existing) == Cardinality(existing) + 1

\* max(existing) + 1 if existing else 1
NextSeqOf(existing) ==
  IF existing = {} THEN 1
  ELSE (CHOOSE m \in existing : \A k \in existing : k <= m) + 1

(***************************************************************************)
(* Storage: the directories under runs/ with the four files each may hold, *)
(* and the pointer file .current_run beside runs/.                         *)
(***************************************************************************)
VARIABLES
  runs,         \* directory name -> [prd, gen, rev, plan], each a file or Absent
  current_run,  \* content of .current_run, or Absent
  call,         \* the last call: its inputs and what the oracle answered
  result        \* what the last call returned or raised

vars == <<runs, current_run, call, result>>

EmptyDir == [prd |-> Absent, gen |-> Absent, rev |-> Absent, plan |-> Absent]

\* A mkdir that leaves the directory empty even when it was there.
MkdirEmpties(fs, d) ==
  [e \in DOMAIN fs \cup {d} |-> IF e = d THEN EmptyDir ELSE fs[e]]

\* run_dir.mkdir(parents=True, exist_ok=True)
Mkdir(fs, d) == IF d \in DOMAIN fs THEN fs ELSE fs @@ (d :> EmptyDir)

\* (run_dir / file).write_text(...)
WriteFile(fs, d, file, content) ==
  [fs EXCEPT ![d] = [fs[d] EXCEPT ![file] = content]]

(***************************************************************************)
(* Inputs of a generate call.                                              *)
(***************************************************************************)
Some(v) == [val |-> v]

\* A text is the record of its sequence of characters.
Text(chars) == [text |-> chars]

Whitespace == {" ", "\n", "\t"}

\* str.strip()
RECURSIVE Strip(_)
Strip(s) ==
  IF Len(s) = 0 THEN s
  ELSE IF s[1] \in Whitespace THEN Strip(Tail(s))
  ELSE IF s[Len(s)] \in Whitespace THEN Strip(SubSeq(s, 1, Len(s) - 1))
  ELSE s

\* IsBlank without the strip: only a missing or empty text is blank.
IsBlankNoStrip(t) == IF t = Absent THEN TRUE ELSE t.text = <<>>

\* not text or not text.strip()
IsBlank(t) ==
  IF t = Absent THEN TRUE
  ELSE IF t.text = <<>> THEN TRUE
  ELSE Strip(t.text) = <<>>

PrdTexts == {Text(<<" ", "A", "\n">>)}
BlankTexts == {Absent, Text(<<>>), Text(<<" ", "\n">>)}
AllTexts == PrdTexts \cup BlankTexts

\* run_config dicts: a key is Absent or Some(value).
RunConfig(scan, temp, regen) ==
  [include_duplicate_scan |-> scan, temperature |-> temp, allow_regeneration |-> regen]

RunConfigs ==
  { RunConfig(Absent, Absent, Absent),
    RunConfig(Some(FALSE), Absent, Absent),
    RunConfig(Absent, Some(1), Absent),
    RunConfig(Absent, Absent, Some(TRUE)) }

\* run_config.get("include_duplicate_scan", True)
IncludeDuplicateScan(cfg) ==
  IF cfg.include_duplicate_scan = Absent THEN TRUE ELSE cfg.include_duplicate_scan.val

\* f"runs/{request_id}/prd.md"
PrdSource(id) == [dir |-> "runs", run |-> id, file |-> "prd.md"]

\* the schema's other suggestion for prd_source: 'inline'
InlineSource == [dir |-> "", run |-> NoId, file |-> "inline"]

(***************************************************************************)
(* RUN allocation: the directories RUN-<today>-<digits> under runs/.       *)
(***************************************************************************)
ExistingRunSeqs(fs, today) ==
  { ToInt(d.suf) : d \in { e \in DOMAIN fs :
                             e.pre = "RUN" /\ e.date = today /\ IsDigit(e.suf) } }

NextRunId(fs, today) == Name("RUN", today, Format03d(NextSeqOf(ExistingRunSeqs(fs, today))))

\* run_dir.mkdir(...); (run_dir / "prd.md").write_text(prd_text)
CreateRun(fs, id, prd_text) == WriteFile(Mkdir(fs, id), id, "prd", prd_text)

(***************************************************************************)
(* The generation oracle: any value of the GenerationRequest schema.  The  *)
(* prompt asks for the placeholder id RUN-<today>-001, the given           *)
(* prd_source, temperature 0 and allow_regeneration false.                 *)
(***************************************************************************)
PrdTypes == {"clean", "ambiguous"}
Temperatures == {0, 1}

GenerationOutputs(today, prd_source, scan) ==
  [ request_id : {Name("RUN", today, <<0, 0, 1>>)},
    mode : {"generate"},
    prd_source : {prd_source, InlineSource},
    prd_type : PrdTypes,
    constraints : [ temperature : Temperatures,
                    allow_regeneration : BOOLEAN,
                    include_duplicate_scan : {scan} ],
    artifacts : [ existing_suite_index_path : {Absent} ] ]

\* The generation answers that follow the prompt but for the two pinned fields.
NarrowGenerationOutputs(today, prd_source, scan) ==
  { o \in GenerationOutputs(today, prd_source, scan) :
      /\ o.prd_type = "clean"
      /\ o.constraints.temperature = 0
      /\ o.constraints.allow_regeneration = FALSE }

\* PinGeneration with the first assignment (line 172) left out.
PinGenerationSourceOnly(o, id, prd_source) == [o EXCEPT !.prd_source = prd_source]

\* PinGeneration with the second assignment (line 173) left out.
PinGenerationIdOnly(o, id, prd_source) == [o EXCEPT !.request_id = id]

\* output["request_id"] = request_id; output["prd_source"] = prd_source
PinGeneration(o, id, prd_source) ==
  [o EXCEPT !.request_id = id, !.prd_source = prd_source]

(***************************************************************************)
(* What a call returned or raised.                                         *)
(***************************************************************************)
Returned(op, value) == [op |-> op, outcome |-> "returned", value |-> value]
Raised(op, error) == [op |-> op, outcome |-> "raised", value |-> [raised |-> error]]

EmptyPrdError ==
  [error |-> "PRD input is empty or could not be parsed", mode |-> "generate"]

(***************************************************************************)
(* One invocation at a time: main() runs one call, prints what it returned *)
(* and the process ends; only the files outlive it.                        *)
(***************************************************************************)
NoCall == [op |-> "none"]

Idle == call = NoCall

\* print(json.dumps(result)) and the end of the process
Finish ==
  /\ ~Idle
  /\ call' = NoCall
  /\ result' = NoCall
  /\ UNCHANGED <<runs, current_run>>

(***************************************************************************)
(* run(mode="generate"): _run_generate.                                    *)
(***************************************************************************)
\* _format_suite_path: the quoted path, or the instruction to use null
FormatSuitePath(path) ==
  IF path = Absent THEN Text("null (JSON null)") ELSE [quoted |-> path]

\* str(include_duplicate_scan).lower()
LowerStr(b) == IF b THEN "true" ELSE "false"

\* GenerationInput with the other run_config keys passed on as well.
GenerationInputWithOverrides(prd_text, prd_source, today, cfg, path) ==
  [ prd_text |-> prd_text, prd_source |-> prd_source, today |-> today,
    include_duplicate_scan |-> LowerStr(IncludeDuplicateScan(cfg)),
    existing_suite_index_path |-> FormatSuitePath(path),
    temperature |-> cfg.temperature,
    allow_regeneration |-> cfg.allow_regeneration ]

\* lines 157-165: the variables the generation chain is invoked with
GenerationInput(prd_text, prd_source, today, cfg, path) ==
  [ prd_text |-> prd_text, prd_source |-> prd_source, today |-> today,
    include_duplicate_scan |-> LowerStr(IncludeDuplicateScan(cfg)),
    existing_suite_index_path |-> FormatSuitePath(path) ]

\* asked: the chains the call invoked, in order; input: what the generation
\* chain was invoked with; answer: what it returned before the pin (both
\* Absent when there was none).
GenerateCall(prd_text, cfg, asked, input, answer) ==
  [op |-> "generate", prd_text |-> prd_text, run_config |-> cfg,
   asked |-> asked, input |-> input, answer |-> answer]

\* The sequence number the next generate call allocates is at most max.
RunSeqRoom(max) == NextSeqOf(ExistingRunSeqs(runs, Today)) <= max

\* The guard of line 126: nothing is read or written.
GenerateEmptyInput ==
  \E prd_text \in AllTexts, cfg \in RunConfigs :
    /\ Idle
    /\ IsBlank(prd_text)
    /\ call' = GenerateCall(prd_text, cfg, <<>>, Absent, Absent)
    /\ result' = Returned("generate", EmptyPrdError)
    /\ UNCHANGED <<runs, current_run>>

\* The run directory and prd.md are written, then _get_llm() raises
\* EnvironmentError (no OPENAI_API_KEY) or the chain raises (the oracle's
\* answer does not parse as the schema, or the transport fails).
GenerateFailsIf(room) ==
  \E prd_text \in AllTexts, cfg \in RunConfigs,
     error \in {"EnvironmentError", "OracleError"} :
    LET id == NextRunId(runs, Today)
    IN  /\ Idle
        /\ ~IsBlank(prd_text)
        /\ room
        /\ runs' = CreateRun(runs, id, prd_text)
        /\ call' = GenerateCall(prd_text, cfg,
                                IF error = "OracleError" THEN <<"generation">> ELSE <<>>,
                                IF error = "OracleError"
                                THEN GenerationInput(prd_text, PrdSource(id), Today, cfg, Absent)
                                ELSE Absent,
                                Absent)
        /\ result' = Raised("generate", error)
        /\ UNCHANGED current_run

GenerateFails == GenerateFailsIf(RunSeqRoom(MaxSeq))

\* The whole successful call: allocate, create the run, ask the oracle,
\* pin the two fields, write generation_request.json, then .current_run.
\* narrow: whether the generation oracle answers from the narrow set.
GenerateOkOver(narrow, room) ==
  \E prd_text \in AllTexts, cfg \in RunConfigs :
    LET id == NextRunId(runs, Today)
        prd_source == PrdSource(id)
    IN  /\ Idle
        /\ ~IsBlank(prd_text)
        /\ room
        /\ \E o \in IF narrow
                    THEN NarrowGenerationOutputs(Today, prd_source, IncludeDuplicateScan(cfg))
                    ELSE GenerationOutputs(Today, prd_source, IncludeDuplicateScan(cfg)) :
             LET output == PinGeneration(o, id, prd_source)
             IN  /\ runs' = WriteFile(CreateRun(runs, id, prd_text), id, "gen", output)
                 /\ current_run' = id
                 /\ call' = GenerateCall(prd_text, cfg, <<"generation">>,
                                         GenerationInput(prd_text, prd_source, Today, cfg, Absent),
                                         o)
                 /\ result' = Returned("generate", output)

GenerateOk == GenerateOkOver(FALSE, RunSeqRoom(MaxSeq))

(***************************************************************************)
(* Inputs of a review call.  An artifact set is a dict; the model keeps    *)
(* its "request_id" key (NoId when missing) and the tc_id / req_id values  *)
(* of its items.                                                           *)
(***************************************************************************)
Artifacts(request_id, ids) == [request_id |-> request_id, ids |-> ids]

\* json.loads of a generation_request.json: a GenerationRequest has a
\* request_id and no test case or requirement.
ArtifactsOfGeneration(gen) == Artifacts(gen.request_id, {})

KnownIds == {"TC-003", "TC-004", "REQ-001"}

ExplicitArtifacts ==
  { Artifacts(r, KnownIds) : r \in {NoId, Name("RUN", Today, <<0, 0, 1>>)} }

Messages == {Text(<<"W", "h", "y", "?">>)}
AllMessages == Messages \cup BlankTexts

(***************************************************************************)
(* The schemas of review mode and the three review oracles.                *)
(***************************************************************************)
Intents == {"explain", "revise", "both"}

RequestedChange(target_id, fld, new_value) ==
  [target_id |-> target_id, field |-> fld, new_value |-> new_value,
   reason |-> "Requested by reviewer."]

RejectedChange(target_id, fld, reason) ==
  [target_id |-> target_id, field |-> fld, reason |-> reason]

\* The prompt's reason for a change on a forbidden field.
ForbiddenReason(fld) == fld \o " is a forbidden field and cannot be changed."

\* Changes an extraction answer may list: RequestedChange takes any strings.
ProposedChanges ==
  { RequestedChange("TC-004", "priority", "P1"),
    RequestedChange("TC-004", "priority", "P9"),
    RequestedChange("TC-003", "severity", "urgent"),
    RequestedChange("TC-004", "tc_id", "TC-005"),
    RequestedChange("TC-999", "severity", "high") }

ChangeLists == UNION { [1..n -> ProposedChanges] : n \in 0..MaxChanges }

TargetLists == {<<>>, <<"TC-003">>}

RejectedLists ==
  {<<>>, <<RejectedChange("TC-004", "tc_id", ForbiddenReason("tc_id"))>>}

\* How many of the free parts of an extraction answer are filled in.
Filled(o) ==
    (IF o.requested_changes = <<>> THEN 0 ELSE 1)
  + (IF o.explanation_targets = <<>> THEN 0 ELSE 1)
  + (IF o.rejected_changes = <<>> THEN 0 ELSE 1)
  + (IF o.policy.delta_only THEN 0 ELSE 1)
  + (IF o.policy.disallow_unrequested_changes THEN 0 ELSE 1)

\* Step 2: any value of the RevisionRequest schema.  The prompt asks for the
\* id REV-<today>-<seq>, the Step-1 intent and both policy flags true.
RevisionOutputs(today, seq) ==
  { o \in [ request_id : {Name("REV", today, seq)},
            mode : {"revise"},
            intent : Intents,
            target_artifact : {"test_plan"},
            requested_changes : ChangeLists,
            explanation_targets : TargetLists,
            rejected_changes : RejectedLists,
            policy : [ delta_only : BOOLEAN,
                       disallow_unrequested_changes : BOOLEAN ] ] :
      Filled(o) <= MaxFilled }

ForbiddenChanges == <<"req_id", "tc_id", "objective", "type", "surface">>
ValidationProfile == <<"schema", "cross_ref", "delta", "rationale">>

ChangeScope(target_id, allowed_fields) ==
  [target_id |-> target_id, allowed_fields |-> allowed_fields]

\* The plan oracle: any value of the ExecutionPlan schema.
PlanOutputs ==
  [ change_scope : {<<>>, <<ChangeScope("TC-004", <<"priority">>)>>},
    forbidden_changes : {<<>>, <<"priority">>},
    validation_profile : {<<>>} ]

\* Two extraction answers with the policy flags set and nothing rejected: an
\* explanation and one revision, under the id of the prompt or another one.
NarrowRevisionOutputs(today, seq) ==
  { [ request_id |-> id, mode |-> "revise", intent |-> a.intent,
      target_artifact |-> "test_plan", requested_changes |-> a.requested_changes,
      explanation_targets |-> <<>>, rejected_changes |-> <<>>,
      policy |-> [ delta_only |-> TRUE, disallow_unrequested_changes |-> TRUE ] ] :
      a \in { [ intent |-> "explain", requested_changes |-> <<>> ],
              [ intent |-> "revise",
                requested_changes |-> <<RequestedChange("TC-004", "priority", "P1")>> ] },
      id \in {Name("REV", today, seq), Name("RUN", today, <<0, 0, 1>>)} }

NarrowPlanOutputs ==
  { p \in PlanOutputs : p.forbidden_changes = <<>> /\ p.change_scope # <<>> }

\* PinPlan with the second assignment (lines 305-307) left out.
PinPlanForbiddenOnly(ep) == [ep EXCEPT !.forbidden_changes = ForbiddenChanges]

\* ep_output["forbidden_changes"] = [...]; ep_output["validation_profile"] = [...]
PinPlan(ep) ==
  [ep EXCEPT !.forbidden_changes = ForbiddenChanges,
             !.validation_profile = ValidationProfile]

\* output["request_id"] = rev_request_id
PinRevision(o, id) == [o EXCEPT !.request_id = id]

(***************************************************************************)
(* REV allocation: the request_id inside every runs/*/revision_request.json *)
(* A revision_request.json the agent wrote is a RevisionRequest.  A file   *)
(* left by anything else may be unreadable, may not parse, or may parse to *)
(* another JSON value or to an object of another shape.                    *)
(***************************************************************************)
\* read_text raises OSError, or json.loads raises JSONDecodeError
Broken(why) == [broken |-> why]

\* valid JSON that is not an object: the array []
JsonArray == [array |-> <<>>]

\* a JSON number where a string is expected
JsonNumber(n) == [number |-> n]

\* lines 238-245 for one file: the numbers it adds to existing_revs, or the
\* exception that leaves the try block (only JSONDecodeError and OSError are
\* caught).
ScanRevFile(f, today) ==
  IF "broken" \in DOMAIN f THEN [ok |-> TRUE, seqs |-> {}]
  ELSE IF "array" \in DOMAIN f THEN [ok |-> FALSE, error |-> "AttributeError"]
  ELSE LET rid == IF "request_id" \in DOMAIN f THEN f.request_id ELSE NoId
       IN  IF "number" \in DOMAIN rid THEN [ok |-> FALSE, error |-> "TypeError"]
           ELSE IF rid.pre = "REV" /\ rid.date = today /\ IsDigit(rid.suf)
                THEN [ok |-> TRUE, seqs |-> {ToInt(rid.suf)}]
                ELSE [ok |-> TRUE, seqs |-> {}]

RevFiles(fs) == { fs[d].rev : d \in { e \in DOMAIN fs : fs[e].rev # Absent } }

\* The exceptions the scan of lines 233-245 can end with: that of the first
\* file, in directory order, whose scan raises.
RevScanErrors(fs, today) ==
  { ScanRevFile(f, today).error : f \in { g \in RevFiles(fs) : ~ScanRevFile(g, today).ok } }

ExistingRevSeqs(fs, today) ==
  UNION { ScanRevFile(f, today).seqs : f \in { g \in RevFiles(fs) : ScanRevFile(g, today).ok } }

NextRevSeq(fs, today) == NextSeqOf(ExistingRevSeqs(fs, today))

\* The sequence number the next review call allocates is at most max.
RevSeqRoom(max) == NextRevSeq(runs, Today) <= max

(***************************************************************************)
(* run(mode="review"): _run_review.                                        *)
(***************************************************************************)
\* LoadArtifacts with one error for both failures.
LoadArtifactsOneError(fs, pointer, given) ==
  IF given # Absent THEN [ok |-> TRUE, artifacts |-> given]
  ELSE IF pointer = Absent THEN [ok |-> FALSE, error |-> "RuntimeError"]
  ELSE IF pointer \notin DOMAIN fs THEN [ok |-> FALSE, error |-> "RuntimeError"]
  ELSE IF fs[pointer].gen = Absent THEN [ok |-> FALSE, error |-> "RuntimeError"]
  ELSE [ok |-> TRUE, artifacts |-> ArtifactsOfGeneration(fs[pointer].gen)]

\* lines 215-227: the artifact set the call works on, or the error it raises.
LoadArtifacts(fs, pointer, given) ==
  IF given # Absent THEN [ok |-> TRUE, artifacts |-> given]
  ELSE IF pointer = Absent THEN [ok |-> FALSE, error |-> "RuntimeError"]
  ELSE IF pointer \notin DOMAIN fs THEN [ok |-> FALSE, error |-> "FileNotFoundError"]
  ELSE IF fs[pointer].gen = Absent THEN [ok |-> FALSE, error |-> "FileNotFoundError"]
  ELSE [ok |-> TRUE, artifacts |-> ArtifactsOfGeneration(fs[pointer].gen)]

HasPlan(fs, d) == IF d \in DOMAIN fs THEN fs[d].plan # Absent ELSE FALSE

\* asked: the chains the call invoked, in order.
ReviewCall(message, given, artifacts, had_plan, intent1, proposal, plan, asked) ==
  [op |-> "review", message |-> message, given |-> given, artifacts |-> artifacts,
   had_plan |-> had_plan, intent1 |-> intent1, proposal |-> proposal, plan |-> plan,
   asked |-> asked]

FailedReviewCall(message, given, asked) ==
  [op |-> "review", message |-> message, given |-> given, asked |-> asked]

GivenArtifacts == {Absent} \cup ExplicitArtifacts

\* line 205: the message is missing, empty or blank.
ReviewEmptyMessage ==
  \E m \in AllMessages, given \in GivenArtifacts :
    /\ Idle
    /\ IsBlank(m)
    /\ call' = FailedReviewCall(m, given, <<>>)
    /\ result' = Raised("review", "ValueError")
    /\ UNCHANGED <<runs, current_run>>

\* lines 215-226: no artifact set given and none to load.
ReviewNoArtifacts ==
  \E m \in AllMessages :
    LET loaded == LoadArtifacts(runs, current_run, Absent)
    IN  /\ Idle
        /\ ~IsBlank(m)
        /\ ~loaded.ok
        /\ call' = FailedReviewCall(m, Absent, <<>>)
        /\ result' = Raised("review", loaded.error)
        /\ UNCHANGED <<runs, current_run>>

\* lines 233-245: an exception the scan does not catch ends the call.
ReviewScanFails ==
  \E m \in AllMessages, given \in GivenArtifacts :
    /\ Idle
    /\ ~IsBlank(m)
    /\ LoadArtifacts(runs, current_run, given).ok
    /\ \E error \in RevScanErrors(runs, Today) :
         /\ call' = FailedReviewCall(m, given, <<>>)
         /\ result' = Raised("review", error)
         /\ UNCHANGED <<runs, current_run>>

\* _get_llm() raises, or the Step-1 or Step-2 chain raises: nothing is written.
ReviewFails ==
  \E m \in AllMessages, given \in GivenArtifacts,
     failure \in { [error |-> "EnvironmentError", asked |-> <<>>],
                   [error |-> "OracleError", asked |-> <<"intent">>],
                   [error |-> "OracleError", asked |-> <<"intent", "revision">>] } :
    /\ Idle
    /\ ~IsBlank(m)
    /\ LoadArtifacts(runs, current_run, given).ok
    /\ RevScanErrors(runs, Today) = {}
    /\ call' = FailedReviewCall(m, given, failure.asked)
    /\ result' = Raised("review", failure.error)
    /\ UNCHANGED <<runs, current_run>>

\* PersistReview that keeps a revision_request.json that is already there.
PersistReviewFirstWins(fs, original_run_id, output, plan) ==
  IF original_run_id = NoId THEN fs
  ELSE LET made == Mkdir(fs, original_run_id)
           saved == IF made[original_run_id].rev = Absent
                    THEN WriteFile(made, original_run_id, "rev", output)
                    ELSE made
       IN  IF output.intent \in {"revise", "both"}
           THEN WriteFile(saved, original_run_id, "plan", PinPlan(plan))
           ELSE saved

\* lines 280-311: what the call writes once the extraction answer is pinned.
\* plan is the plan oracle's answer, read only when a plan is asked for.
PersistReview(fs, original_run_id, output, plan) ==
  IF original_run_id = NoId THEN fs
  ELSE LET saved == WriteFile(Mkdir(fs, original_run_id), original_run_id, "rev", output)
       IN  IF output.intent \in {"revise", "both"}
           THEN WriteFile(saved, original_run_id, "plan", PinPlan(plan))
           ELSE saved

\* Whether the call asks the plan oracle (line 281 and line 290).
AsksPlan(original_run_id, output) ==
  original_run_id # NoId /\ output.intent \in {"revise", "both"}

\* The whole successful call.  narrow: whether the extraction oracle and the
\* plan oracle answer from their narrow sets.
ReviewOkOver(narrow, room) ==
  \E m \in AllMessages, given \in GivenArtifacts, intent1 \in Intents :
    LET loaded == LoadArtifacts(runs, current_run, given)
        seq == NextRevSeq(runs, Today)
    IN  /\ Idle
        /\ ~IsBlank(m)
        /\ loaded.ok
        /\ RevScanErrors(runs, Today) = {}
        /\ room
        /\ \E o \in IF narrow THEN NarrowRevisionOutputs(Today, Format03d(seq))
                    ELSE RevisionOutputs(Today, Format03d(seq)) :
             LET output == PinRevision(o, Name("REV", Today, Format03d(seq)))
                 run_id == loaded.artifacts.request_id
                 asks == AsksPlan(run_id, output)
             IN  \E plan \in IF ~asks THEN {Absent}
                               ELSE IF narrow THEN NarrowPlanOutputs ELSE PlanOutputs :
                   /\ runs' = PersistReview(runs, run_id, output, plan)
                   /\ call' = ReviewCall(m, given, loaded.artifacts, HasPlan(runs, run_id),
                                         intent1, o, plan,
                                         IF asks THEN <<"intent", "revision", "plan">>
                                         ELSE <<"intent", "revision">>)
                   /\ result' = Returned("review", output)
                   /\ UNCHANGED current_run

ReviewOk == ReviewOkOver(FALSE, RevSeqRoom(MaxRevSeq))

\* revision_request.json is written, then the plan chain raises.
ReviewPlanFailsOver(narrow, room) ==
  \E m \in AllMessages, given \in GivenArtifacts :
    LET loaded == LoadArtifacts(runs, current_run, given)
        seq == NextRevSeq(runs, Today)
    IN  /\ Idle
        /\ ~IsBlank(m)
        /\ loaded.ok
        /\ RevScanErrors(runs, Today) = {}
        /\ room
        /\ \E o \in IF narrow THEN NarrowRevisionOutputs(Today, Format03d(seq))
                    ELSE RevisionOutputs(Today, Format03d(seq)) :
             LET output == PinRevision(o, Name("REV", Today, Format03d(seq)))
                 run_id == loaded.artifacts.request_id
             IN  /\ AsksPlan(run_id, output)
                 /\ runs' = WriteFile(Mkdir(runs, run_id), run_id, "rev", output)
                 /\ call' = FailedReviewCall(m, given, <<"intent", "revision", "plan">>)
                 /\ result' = Raised("review", "OracleError")
                 /\ UNCHANGED current_run

ReviewPlanFails == ReviewPlanFailsOver(FALSE, RevSeqRoom(MaxRevSeq))

Init ==
  /\ runs = [d \in {} |-> EmptyDir]
  /\ current_run = Absent
  /\ call = NoCall
  /\ result = NoCall

Next ==
  \/ GenerateEmptyInput
  \/ GenerateFails
  \/ GenerateOk
  \/ ReviewEmptyMessage
  \/ ReviewNoArtifacts
  \/ ReviewFails
  \/ ReviewOk
  \/ ReviewPlanFails
  \/ Finish

Spec == Init /\ [][Next]_vars

(***************************************************************************)
(* Calls on a store that was not empty: the runs/ tree and .current_run    *)
(* hold what earlier days, earlier calls and other tools left, and the     *)
(* oracles answer with a few values of their schemas.                      *)
(***************************************************************************)
\* how many directories runs/ holds before the first call
MaxPriorDirs == 1
\* how many directories runs/ may hold when a generate call starts
MaxDirs == 1
\* highest REV sequence number below 1000 a review call may allocate
MaxPriorRevSeq == 1

\* the first sequence number f"{n:03d}" writes with four digits
FourDigits == 1000

Yesterday == "20261105"

\* a generation_request.json an earlier generate call wrote
PriorGeneration(id) ==
  [ request_id |-> id, mode |-> "generate", prd_source |-> PrdSource(id),
    prd_type |-> "clean",
    constraints |-> [ temperature |-> 0, allow_regeneration |-> FALSE,
                      include_duplicate_scan |-> TRUE ],
    artifacts |-> [ existing_suite_index_path |-> Absent ] ]

\* a revision_request.json an earlier review call wrote
PriorRevision(id) ==
  [ request_id |-> id, mode |-> "revise", intent |-> "explain",
    target_artifact |-> "test_plan", requested_changes |-> <<>>,
    explanation_targets |-> <<"TC-003">>, rejected_changes |-> <<>>,
    policy |-> [ delta_only |-> TRUE, disallow_unrequested_changes |-> TRUE ] ]

PriorDir(name, gen, rev) ==
  [ name |-> name,
    dir |-> [ prd |-> Text(<<"A">>), gen |-> gen, rev |-> rev, plan |-> Absent ] ]

\* a run of an earlier successful generate call, reviewed or not
CompleteRun(name, rev) == PriorDir(name, PriorGeneration(name), rev)

\* a directory without generation_request.json
BareDir(name, rev) == PriorDir(name, Absent, rev)

PriorDirs ==
  { CompleteRun(Name("RUN", Today, <<0, 0, 1>>), Absent),
    BareDir(Name("RUN", Today, <<0, 0, 1>>), Absent),
    CompleteRun(Name("RUN", Today, <<0, 0, 2>>),
                PriorRevision(Name("REV", Today, <<0, 0, 2>>))),
    CompleteRun(Name("RUN", Today, <<9, 9, 9>>),
                PriorRevision(Name("REV", Today, <<9, 9, 9>>))),
    BareDir(Name("RUN", Today, <<2>>), Absent),
    BareDir(Name("RUN", Today, <<0, 10>>),
            PriorRevision(Name("REV", Today, <<0, 10>>))),
    CompleteRun(Name("RUN", Yesterday, <<0, 0, 5>>),
                PriorRevision(Name("REV", Yesterday, <<0, 0, 4>>))),
    BareDir(Name("RUN", Yesterday, <<0, 0, 1>>), Broken("unreadable")),
    BareDir(Name("RUN", Yesterday, <<0, 0, 2>>), Broken("not_json")),
    BareDir(Name("RUN", Yesterday, <<0, 0, 3>>), JsonArray),
    BareDir(Name("RUN", Yesterday, <<0, 0, 4>>), [mode |-> "revise"]),
    BareDir(Name("RUN", Yesterday, <<0, 0, 6>>), [request_id |-> JsonNumber(5)]) }

\* The trees runs/ may hold before the first call.
PriorStores ==
  { [ d \in { e.name : e \in chosen } |->
        (CHOOSE e \in chosen : e.name = d).dir ] :
      chosen \in { c \in SUBSET PriorDirs :
                     /\ Cardinality(c) <= MaxPriorDirs
                     /\ \A e1, e2 \in c : e1.name = e2.name => e1 = e2 } }

\* What .current_run may hold before the first call.
PriorPointers ==
  {Absent, Name("RUN", Today, <<0, 0, 1>>), Name("RUN", Yesterday, <<0, 0, 5>>)}

\* runs/ has room for the directory of one more run.
DirRoom == Cardinality(DOMAIN runs) <= MaxDirs

\* The next REV sequence number is low, or the first one of four digits.
PriorRevSeqRoom ==
  LET seq == NextRevSeq(runs, Today)
  IN  IF seq <= MaxPriorRevSeq THEN TRUE ELSE seq = FourDigits

PriorGenerateFails == GenerateFailsIf(DirRoom)
PriorGenerateOk == GenerateOkOver(TRUE, DirRoom)
PriorReviewOk == ReviewOkOver(TRUE, PriorRevSeqRoom)
PriorReviewPlanFails == ReviewPlanFailsOver(TRUE, PriorRevSeqRoom)

InitPrior ==
  /\ runs \in PriorStores
  /\ current_run \in PriorPointers
  /\ call = NoCall
  /\ result = NoCall

NextPrior ==
  \/ GenerateEmptyInput
  \/ PriorGenerateFails
  \/ PriorGenerateOk
  \/ ReviewEmptyMessage
  \/ ReviewNoArtifacts
  \/ ReviewScanFails
  \/ ReviewFails
  \/ PriorReviewOk
  \/ PriorReviewPlanFails
  \/ Finish

SpecPrior == InitPrior /\ [][NextPrior]_vars

(***************************************************************************)
(* Two generate invocations at once on one base directory, on one date.    *)
(* No lock is taken: each invocation goes through _run_generate one file   *)
(* system operation at a time, and the operations of the two interleave.   *)
(* Here call maps each invocation to its position and its local variables, *)
(* and result maps it to what it has returned or raised.                   *)
(***************************************************************************)
Invocations == {1, 2}

\* the document of each invocation
RaceText(p) == IF p = 1 THEN Text(<<"A">>) ELSE Text(<<"B">>)

\* run_dir.mkdir(parents=True, exist_ok=True): the literal at line 146
ExistNotOk == FALSE
ExistOk == TRUE

\* mkdir raises FileExistsError on an existing directory unless exist_ok
MkdirRaises(fs, d) == d \in DOMAIN fs /\ ~ExistOk

\* The local variables of an invocation at position pc.
Frame(pc, prd_text, existing, request_id, output) ==
  [op |-> "generate", pc |-> pc, prd_text |-> prd_text, existing |-> existing,
   request_id |-> request_id, output |-> output]

At(p, pc) == call[p].pc = pc

Goto(p, pc) == call' = [call EXCEPT ![p].pc = pc]

\* lines 126-142: the guard, the scan of runs/ and the choice of request_id
RaceScan(p) ==
  /\ At(p, "start")
  /\ ~IsBlank(call[p].prd_text)
  /\ LET existing == ExistingRunSeqs(runs, Today)
     IN  call' = [call EXCEPT ![p] =
                    Frame("scanned", call[p].prd_text, existing,
                          Name("RUN", Today, Format03d(NextSeqOf(existing))), Absent)]
  /\ UNCHANGED <<runs, current_run, result>>

\* line 146
RaceMkdir(p) ==
  /\ At(p, "scanned")
  /\ IF MkdirRaises(runs, call[p].request_id)
     THEN /\ Goto(p, "done")
          /\ result' = [result EXCEPT ![p] = Raised("generate", "FileExistsError")]
          /\ UNCHANGED <<runs, current_run>>
     ELSE /\ runs' = Mkdir(runs, call[p].request_id)
          /\ Goto(p, "made")
          /\ UNCHANGED <<current_run, result>>

\* line 147
RaceWritePrd(p) ==
  /\ At(p, "made")
  /\ runs' = WriteFile(runs, call[p].request_id, "prd", call[p].prd_text)
  /\ Goto(p, "prd_written")
  /\ UNCHANGED <<current_run, result>>

\* lines 152-165: _get_llm() or the chain raises
RaceAskFails(p) ==
  /\ At(p, "prd_written")
  /\ \E error \in {"EnvironmentError", "OracleError"} :
       result' = [result EXCEPT ![p] = Raised("generate", error)]
  /\ Goto(p, "done")
  /\ UNCHANGED <<runs, current_run>>

\* lines 150-173: the oracle answers and the two fields are pinned
RaceAsk(p) ==
  /\ At(p, "prd_written")
  /\ LET id == call[p].request_id
     IN  \E o \in NarrowGenerationOutputs(Today, PrdSource(id), TRUE) :
           call' = [call EXCEPT ![p].pc = "answered",
                                ![p].output = PinGeneration(o, id, PrdSource(id))]
  /\ UNCHANGED <<runs, current_run, result>>

\* lines 176-178
RaceWriteGen(p) ==
  /\ At(p, "answered")
  /\ runs' = WriteFile(runs, call[p].request_id, "gen", call[p].output)
  /\ Goto(p, "gen_written")
  /\ UNCHANGED <<current_run, result>>

\* What a concurrent reader finds in a file that write_text has opened with
\* mode 'w' and not yet written: the file is there and empty, and
\* read_text().strip() (line 221) gives the empty name.
OpenForWrite == NoId

\* line 183, first half: write_text opens .current_run, creating or
\* truncating it
RaceOpenPointer(p) ==
  /\ At(p, "gen_written")
  /\ current_run' = OpenForWrite
  /\ Goto(p, "pointer_open")
  /\ UNCHANGED <<runs, result>>

\* lines 183-185: the request_id is written into the open file; return
RaceWritePointer(p) ==
  /\ At(p, "pointer_open")
  /\ current_run' = call[p].request_id
  /\ result' = [result EXCEPT ![p] = Returned("generate", call[p].output)]
  /\ Goto(p, "done")
  /\ UNCHANGED runs

InitRace ==
  /\ runs \in { s \in PriorStores : Cardinality(DOMAIN s) <= 1 }
  /\ current_run = Absent
  /\ call = [p \in Invocations |-> Frame("start", RaceText(p), {}, NoId, Absent)]
  /\ result = [p \in Invocations |-> NoCall]

NextRace ==
  \E p \in Invocations :
    \/ RaceScan(p)
    \/ RaceMkdir(p)
    \/ RaceWritePrd(p)
    \/ RaceAskFails(p)
    \/ RaceAsk(p)
    \/ RaceWriteGen(p)
    \/ RaceOpenPointer(p)
    \/ RaceWritePointer(p)

SpecRace == InitRace /\ [][NextRace]_vars

(***************************************************************************)
(* Generate and review together: the two generate invocations of above and *)
(* one review invocation that loads its artifact set from .current_run,    *)
(* all against one base directory that starts empty.  The review call      *)
(* takes one step per filesystem operation and per oracle call.            *)
(***************************************************************************)
Reviewer == 3

\* The local variables of the review call and its position in _run_review.
ReviewFrame(pc, message, artifacts, seq, output) ==
  [op |-> "review", pc |-> pc, message |-> message, artifacts |-> artifacts,
   seq |-> seq, output |-> output]

\* lines 205-227: the guard, then .current_run and the generation_request.json
\* it names are read
MixedLoad ==
  /\ At(Reviewer, "start")
  /\ ~IsBlank(call[Reviewer].message)
  /\ LET loaded == LoadArtifacts(runs, current_run, Absent)
     IN  IF loaded.ok
         THEN /\ call' = [call EXCEPT ![Reviewer] =
                           ReviewFrame("loaded", call[Reviewer].message,
                                       loaded.artifacts, 0, Absent)]
              /\ UNCHANGED result
         ELSE /\ Goto(Reviewer, "done")
              /\ result' = [result EXCEPT ![Reviewer] = Raised("review", loaded.error)]
  /\ UNCHANGED <<runs, current_run>>

\* lines 231-248: the scan of runs/*/revision_request.json
MixedScan ==
  /\ At(Reviewer, "loaded")
  /\ RevScanErrors(runs, Today) = {}
  /\ call' = [call EXCEPT ![Reviewer].pc = "scanned",
                          ![Reviewer].seq = NextRevSeq(runs, Today)]
  /\ UNCHANGED <<runs, current_run, result>>

\* lines 253-273: _get_llm() or one of the two chains raises
MixedAskFails ==
  /\ At(Reviewer, "scanned")
  /\ \E error \in {"EnvironmentError", "OracleError"} :
       result' = [result EXCEPT ![Reviewer] = Raised("review", error)]
  /\ Goto(Reviewer, "done")
  /\ UNCHANGED <<runs, current_run>>

\* lines 253-278: the two chains answer and request_id is pinned
MixedAsk ==
  /\ At(Reviewer, "scanned")
  /\ \E o \in NarrowRevisionOutputs(Today, Format03d(call[Reviewer].seq)) :
       call' = [call EXCEPT ![Reviewer].pc = "answered",
                            ![Reviewer].output =
                              PinRevision(o, Name("REV", Today,
                                                  Format03d(call[Reviewer].seq)))]
  /\ UNCHANGED <<runs, current_run, result>>

\* lines 281-282: run_dir.mkdir(parents=True, exist_ok=True) when the
\* artifact set carries a request_id; without one the call returns
MixedMkdir ==
  /\ At(Reviewer, "answered")
  /\ IF call[Reviewer].artifacts.request_id = NoId
     THEN /\ Goto(Reviewer, "done")
          /\ result' = [result EXCEPT ![Reviewer] =
                          Returned("review", call[Reviewer].output)]
          /\ UNCHANGED runs
     ELSE /\ runs' = Mkdir(runs, call[Reviewer].artifacts.request_id)
          /\ Goto(Reviewer, "made")
          /\ UNCHANGED result
  /\ UNCHANGED current_run

\* lines 284-290: revision_request.json is written; an explain-only call returns
MixedWriteRev ==
  /\ At(Reviewer, "made")
  /\ runs' = WriteFile(runs, call[Reviewer].artifacts.request_id, "rev",
                       call[Reviewer].output)
  /\ IF AsksPlan(call[Reviewer].artifacts.request_id, call[Reviewer].output)
     THEN /\ Goto(Reviewer, "rev_written")
          /\ UNCHANGED result
     ELSE /\ Goto(Reviewer, "done")
          /\ result' = [result EXCEPT ![Reviewer] =
                          Returned("review", call[Reviewer].output)]
  /\ UNCHANGED current_run

\* lines 292-302: the plan chain raises
MixedPlanFails ==
  /\ At(Reviewer, "rev_written")
  /\ result' = [result EXCEPT ![Reviewer] = Raised("review", "OracleError")]
  /\ Goto(Reviewer, "done")
  /\ UNCHANGED <<runs, current_run>>

\* lines 292-314: the plan chain answers, the plan is pinned and written
MixedWritePlan ==
  /\ At(Reviewer, "rev_written")
  /\ \E plan \in NarrowPlanOutputs :
       runs' = WriteFile(runs, call[Reviewer].artifacts.request_id, "plan", PinPlan(plan))
  /\ result' = [result EXCEPT ![Reviewer] = Returned("review", call[Reviewer].output)]
  /\ Goto(Reviewer, "done")
  /\ UNCHANGED current_run

InitMixed ==
  /\ runs = [d \in {} |-> EmptyDir]
  /\ current_run = Absent
  /\ call = [p \in Invocations \cup {Reviewer} |->
               IF p = Reviewer
               THEN ReviewFrame("start", Text(<<"W", "h", "y", "?">>), Absent, 0, Absent)
               ELSE Frame("start", RaceText(p), {}, NoId, Absent)]
  /\ result = [p \in Invocations \cup {Reviewer} |-> NoCall]

NextMixed ==
  \/ NextRace
  \/ MixedLoad
  \/ MixedScan
  \/ MixedAskFails
  \/ MixedAsk
  \/ MixedMkdir
  \/ MixedWriteRev
  \/ MixedPlanFails
  \/ MixedWritePlan

SpecMixed == InitMixed /\ [][NextMixed]_vars

(***************************************************************************)
(* What the claims speak of: the request a call returned and the requests  *)
(* found in the files.                                                     *)
(***************************************************************************)
GenerateSucceeded ==
  result.op = "generate" /\ result.outcome = "returned" /\ result.value # EmptyPrdError

ReviewSucceeded == result.op = "review" /\ result.outcome = "returned"

ReturnedGenerations == IF GenerateSucceeded THEN {result.value} ELSE {}
PersistedGenerations == { runs[d].gen : d \in { e \in DOMAIN runs : runs[e].gen # Absent } }

ReturnedRevisions == IF ReviewSucceeded THEN {result.value} ELSE {}
PersistedRevisions == { runs[d].rev : d \in { e \in DOMAIN runs : runs[e].rev # Absent } }

PersistedPlans == { runs[d].plan : d \in { e \in DOMAIN runs : runs[e].plan # Absent } }

Entries(list) == { list[i] : i \in 1..Len(list) }

\* C1: every GenerationRequest a generate call returned, and every persisted
\* generation_request.json, has constraints.temperature = 0 and
\* constraints.allow_regeneration = false, whatever the oracle answered and
\* whatever the run_config held.
C1_GenerationConstraintsPinned ==
  \A g \in ReturnedGenerations \cup PersistedGenerations :
    g.constraints.temperature = 0 /\ g.constraints.allow_regeneration = FALSE

\* C2: every RevisionRequest a review call returned, and every persisted
\* revision_request.json, has policy.delta_only and
\* policy.disallow_unrequested_changes true.
C2_RevisionPolicyPinned ==
  \A r \in ReturnedRevisions \cup PersistedRevisions :
    r.policy.delta_only = TRUE /\ r.policy.disallow_unrequested_changes = TRUE

\* C3: in every returned or persisted RevisionRequest, intent "explain" comes
\* with an empty requested_changes.
C3_ExplainHasNoChanges ==
  \A r \in ReturnedRevisions \cup PersistedRevisions :
    r.intent = "explain" => r.requested_changes = <<>>

\* C4: in every returned or persisted RevisionRequest, intent "revise" comes
\* with an empty explanation_targets.
C4_ReviseHasNoTargets ==
  \A r \in ReturnedRevisions \cup PersistedRevisions :
    r.intent = "revise" => r.explanation_targets = <<>>

\* C5: in every returned or persisted RevisionRequest, the field of each
\* requested change is one of the six allowed fields.
C5_RequestedFieldsAllowed ==
  \A r \in ReturnedRevisions \cup PersistedRevisions :
    \A c \in Entries(r.requested_changes) :
      c.field \in {"priority", "priority_basis", "human_note",
                   "severity", "severity_basis", "reasoning"}

ValidValue(c) ==
  /\ c.field = "priority" => c.new_value \in {"P1", "P2", "P3"}
  /\ c.field = "severity" => c.new_value \in {"high", "medium", "low"}

\* C6: in every returned or persisted RevisionRequest a requested priority is
\* P1, P2 or P3 and a requested severity is high, medium or low; a change
\* the oracle proposed with another value for these fields is not among the
\* returned requested changes and has an entry in rejected_changes.
C6_RequestedValuesValid ==
  /\ \A r \in ReturnedRevisions \cup PersistedRevisions :
       \A c \in Entries(r.requested_changes) : ValidValue(c)
  /\ ReviewSucceeded =>
       \A c \in Entries(call.proposal.requested_changes) :
         ~ValidValue(c) =>
           /\ c \notin Entries(result.value.requested_changes)
           /\ \E x \in Entries(result.value.rejected_changes) :
                x.target_id = c.target_id /\ x.field = c.field

\* The revision a review call left in the run of its artifact set.
RevisionsOfCall ==
  IF ~ReviewSucceeded THEN {}
  ELSE {result.value} \cup
       (IF call.artifacts.request_id = NoId THEN {}
        ELSE {runs[call.artifacts.request_id].rev})

\* C7: the target_id of each requested change of a review call's
\* RevisionRequest, returned or persisted, is the tc_id or req_id of an item
\* of the artifact set the call used; a change the oracle proposed on
\* another target is not requested and is rejected with the reason
\* "<id> does not exist in the current artifacts."
C7_RequestedTargetsExist ==
  /\ \A r \in RevisionsOfCall :
       \A c \in Entries(r.requested_changes) : c.target_id \in call.artifacts.ids
  /\ ReviewSucceeded =>
       \A c \in Entries(call.proposal.requested_changes) :
         c.target_id \notin call.artifacts.ids =>
           /\ c \notin Entries(result.value.requested_changes)
           /\ \E x \in Entries(result.value.rejected_changes) :
                /\ x.target_id = c.target_id
                /\ x.reason = c.target_id \o " does not exist in the current artifacts."

\* C8: for every change the oracle proposed on a field outside the allow-list
\* the returned RevisionRequest has a rejected_changes entry with the same
\* target_id and field and the reason "<field> is a forbidden field and
\* cannot be changed."
C8_ForbiddenProposalsRejected ==
  ReviewSucceeded =>
    \A c \in Entries(call.proposal.requested_changes) :
      c.field \notin {"priority", "priority_basis", "human_note",
                      "severity", "severity_basis", "reasoning"} =>
        \E x \in Entries(result.value.rejected_changes) :
          /\ x.target_id = c.target_id
          /\ x.field = c.field
          /\ x.reason = c.field \o " is a forbidden field and cannot be changed."

\* C9: every execution_plan.json has forbidden_changes equal to
\* [req_id, tc_id, objective, type, surface] and validation_profile equal to
\* [schema, cross_ref, delta, rationale], in that order, whatever the plan
\* oracle answered for the two fields.
C9_PlanConstantsPinned ==
  \A ep \in PersistedPlans :
    /\ ep.forbidden_changes = <<"req_id", "tc_id", "objective", "type", "surface">>
    /\ ep.validation_profile = <<"schema", "cross_ref", "delta", "rationale">>

\* A review call has just written a plan although the plan oracle answered
\* other lists for both fields.
C9_Witness ==
  /\ ReviewSucceeded
  /\ call.plan # Absent
  /\ call.plan.forbidden_changes = <<"priority">>
  /\ call.plan.validation_profile = <<>>
  /\ runs[call.artifacts.request_id].plan = PinPlan(call.plan)

\* C10: after a successful review call on a run that had no execution plan
\* before the call, the run's execution_plan.json exists with a change_scope
\* of length >= 1 exactly when the returned intent is revise or both and the
\* returned requested_changes is not empty; it does not exist when the
\* returned intent is explain.
C10_PlanExistsIffChanges ==
  (ReviewSucceeded /\ call.artifacts.request_id # NoId /\ ~call.had_plan) =>
    LET plan == runs[call.artifacts.request_id].plan
        scoped == IF plan = Absent THEN FALSE ELSE Len(plan.change_scope) >= 1
    IN  /\ scoped <=> ( /\ result.value.intent \in {"revise", "both"}
                        /\ result.value.requested_changes # <<>> )
        /\ result.value.intent = "explain" => plan = Absent

(***************************************************************************)
(* The reference grouping of a requested_changes list: one ChangeScope per *)
(* distinct target_id in order of first appearance, with the distinct      *)
(* fields of that target's changes in order of first appearance.           *)
(***************************************************************************)
RECURSIVE DistinctInOrder(_)
DistinctInOrder(list) ==
  IF list = <<>> THEN <<>>
  ELSE LET front == DistinctInOrder(SubSeq(list, 1, Len(list) - 1))
           last == list[Len(list)]
       IN  IF last \in Entries(front) THEN front ELSE Append(front, last)

FieldsOfTarget(changes, target_id) ==
  LET OnTarget(c) == c.target_id = target_id
      own == SelectSeq(changes, OnTarget)
  IN  DistinctInOrder([i \in 1..Len(own) |-> own[i].field])

ReferenceScope(changes) ==
  LET targets == DistinctInOrder([i \in 1..Len(changes) |-> changes[i].target_id])
  IN  [i \in 1..Len(targets) |-> ChangeScope(targets[i], FieldsOfTarget(changes, targets[i]))]

\* C11: the change_scope of the execution plan a review call wrote equals
\* the reference grouping of the requested_changes the call returned.
C11_ScopeIsReferenceGrouping ==
  (ReviewSucceeded /\ call.plan # Absent) =>
    runs[call.artifacts.request_id].plan.change_scope
      = ReferenceScope(result.value.requested_changes)

\* A text that is absent, empty or made of whitespace only.
EmptyText(t) ==
  IF t = Absent THEN TRUE
  ELSE \A i \in 1..Len(t.text) : t.text[i] \in {" ", "\n", "\t"}

\* C12: a generate call whose document text is absent, empty or
\* whitespace-only returns an object with the keys error and mode, mode being
\* "generate"; it asks no oracle, creates no directory, writes no file and
\* leaves .current_run as it was.
C12_EmptyInputReported ==
  [][ (call'.op = "generate" /\ EmptyText(call'.prd_text)) =>
        /\ result'.op = "generate"
        /\ result'.outcome = "returned"
        /\ DOMAIN result'.value = {"error", "mode"}
        /\ result'.value.mode = "generate"
        /\ call'.asked = <<>>
        /\ runs' = runs
        /\ current_run' = current_run ]_vars

\* A generate call on a whitespace-only text has returned the error object
\* while a run and its pointer exist.
C12_Witness ==
  /\ call.op = "generate"
  /\ call.prd_text = Text(<<" ", "\n">>)
  /\ result = Returned("generate", EmptyPrdError)
  /\ current_run # Absent
  /\ DOMAIN runs # {}

\* The step is a generate call that returned a GenerationRequest.
GenerateSucceeds ==
  /\ call'.op = "generate"
  /\ result'.outcome = "returned"
  /\ "request_id" \in DOMAIN result'.value

\* C13: .current_run changes only in a generate call that succeeds, and then
\* to the request_id that call returned; so after any sequence of calls it
\* holds the request_id of the most recent successful generate call, and a
\* generate call that fails, like every review call, leaves it as it was.
C13_PointerFollowsGenerate ==
  [][ IF GenerateSucceeds
      THEN current_run' = result'.value.request_id
      ELSE current_run' = current_run ]_vars

\* A second generate call of the behaviour has succeeded: the run 001 was
\* made by a call, and the pointer is on the run 002 just returned.
C13_Witness ==
  /\ GenerateSucceeded
  /\ result.value.request_id = Name("RUN", Today, <<0, 0, 2>>)
  /\ current_run = Name("RUN", Today, <<0, 0, 2>>)
  /\ Name("RUN", Today, <<0, 0, 1>>) \in DOMAIN runs
  /\ runs[Name("RUN", Today, <<0, 0, 1>>)].prd \in PrdTexts
  /\ runs[Name("RUN", Today, <<0, 0, 1>>)].gen # Absent

\* <prefix>-<today>-<exactly three digits>
ThreeDigitId(id, prefix) ==
  /\ id.pre = prefix
  /\ id.date = Today
  /\ Len(id.suf) = 3
  /\ \A i \in 1..Len(id.suf) : id.suf[i] \in 0..9

\* C14: the request_id a successful generate call returns is RUN-, today's
\* date, and exactly three digits, whatever runs/ held before.
C14_RunIdHasThreeDigits ==
  GenerateSucceeded => ThreeDigitId(result.value.request_id, "RUN")

\* C15: the request_id a successful review call returns is REV-, today's
\* date, and exactly three digits, whatever runs/ held before and whatever
\* request_id the oracle answered.
C15_RevIdHasThreeDigits ==
  ReviewSucceeded => ThreeDigitId(result.value.request_id, "REV")

\* C16: a successful generate call creates one run directory; the request_id
\* it returns is that directory's name and its prd_source is
\* "runs/<request_id>/prd.md", whatever the oracle answered for the two
\* fields, and the generation_request.json in that directory has the same
\* two values.
C16_GenerationIdentityPinned ==
  [][ GenerateSucceeds =>
        LET id == result'.value.request_id
            path == [dir |-> "runs", run |-> id, file |-> "prd.md"]
        IN  /\ DOMAIN runs' \ DOMAIN runs = {id}
            /\ result'.value.prd_source = path
            /\ runs'[id].gen # Absent
            /\ runs'[id].gen.request_id = id
            /\ runs'[id].gen.prd_source = path ]_vars

\* A generate call has succeeded although the oracle answered another
\* request_id and the prd_source 'inline'.
C16_Witness ==
  /\ GenerateSucceeded
  /\ call.answer.request_id # result.value.request_id
  /\ call.answer.prd_source = InlineSource
  /\ runs[result.value.request_id].gen = result.value

\* The lowest number >= 1 that is not in used.
LowestUnused(used) ==
  CHOOSE n \in 1..(Cardinality(used) + 1) :
    n \notin used /\ \A k \in 1..(n - 1) : k \in used

\* The step is a review call that returned a RevisionRequest.
ReviewSucceeds == call'.op = "review" /\ result'.outcome = "returned"

\* C17: the sequence number in the request_id of a successful call is the
\* lowest number >= 1 not used by an identifier of that prefix and of today's
\* date that existed when the call started: for RUN among the names of the
\* run directories, for REV among the request_id values of the persisted
\* revision artifacts.
C17_AllocatesLowestUnused ==
  [][ /\ GenerateSucceeds =>
           ToInt(result'.value.request_id.suf) = LowestUnused(ExistingRunSeqs(runs, Today))
      /\ ReviewSucceeds =>
           ToInt(result'.value.request_id.suf) = LowestUnused(ExistingRevSeqs(runs, Today))
    ]_vars

\* The step is a review call with a message that is not blank.
ReviewStarts == call'.op = "review" /\ ~EmptyText(call'.message)

\* C18: a review call that has a message and an artifact set never fails
\* because of a revision_request.json under runs/: whatever those files
\* hold, the call ends only as the oracle and the configuration make it end,
\* with a sequence number computed from the files that carry a REV id of
\* today.
C18_RevScanNeverFails ==
  [][ (ReviewStarts /\ LoadArtifacts(runs, current_run, call'.given).ok) =>
        (result'.outcome = "raised" =>
           result'.value.raised \in {"EnvironmentError", "OracleError"}) ]_vars

\* .current_run names a run without generation_request.json.
PointerDangles ==
  IF current_run = Absent THEN FALSE
  ELSE IF current_run \notin DOMAIN runs THEN TRUE
  ELSE runs[current_run].gen = Absent

\* C19: a review call without an explicit artifact set raises the
\* no-active-run error (RuntimeError) when .current_run does not exist and
\* the not-found error (FileNotFoundError) when .current_run names a run
\* without generation_request.json; it asks no oracle and changes no file.
C19_NoArtifactsToLoad ==
  [][ (ReviewStarts /\ call'.given = Absent /\ (current_run = Absent \/ PointerDangles)) =>
        /\ result' = [op |-> "review", outcome |-> "raised",
                      value |-> [raised |-> IF current_run = Absent THEN "RuntimeError"
                                            ELSE "FileNotFoundError"]]
        /\ call'.asked = <<>>
        /\ runs' = runs
        /\ current_run' = current_run ]_vars

\* A review call without an artifact set has raised the not-found error on
\* a pointer to a directory that has no generation_request.json.
C19_Witness ==
  /\ call.op = "review"
  /\ call.given = Absent
  /\ result.op = "review"
  /\ result.outcome = "raised"
  /\ result.value.raised = "FileNotFoundError"
  /\ current_run \in DOMAIN runs
  /\ runs[current_run].gen = Absent

\* C20: without a lock, two concurrent generate invocations that both scan
\* runs/ before either creates its directory compute the same request_id,
\* and the directory already being there makes neither of them fail: there
\* is an interleaving in which both return from the same run directory.
C20_RaceSharesRunDirectory ==
  /\ \A p, q \in Invocations :
       (call[p].pc # "start" /\ call[q].pc # "start"
          /\ call[p].existing = call[q].existing) =>
         call[p].request_id = call[q].request_id
  /\ \A p \in Invocations :
       (result[p] # NoCall /\ result[p].outcome = "raised") =>
         result[p].value.raised \in {"EnvironmentError", "OracleError"}

\* Both invocations have returned the same request_id; only one directory
\* was created for the two runs, and it holds the document of one of them.
C20_Witness ==
  /\ \A p \in Invocations : result[p] # NoCall /\ result[p].outcome = "returned"
  /\ result[1].value.request_id = result[2].value.request_id
  /\ call[1].existing = call[2].existing
  /\ DOMAIN runs = {result[1].value.request_id}
  /\ current_run = result[1].value.request_id

\* C21: after a completed review call on a run, the run directory holds
\* execution_plan.json if and only if its revision_request.json, the latest
\* revision, has an intent other than explain.
C21_PlanIffLatestIntent ==
  (ReviewSucceeded /\ call.artifacts.request_id # NoId) =>
    LET dir == runs[call.artifacts.request_id]
    IN  (dir.plan # Absent) <=> (dir.rev.intent # "explain")

\* C27: starting from an empty base directory, whenever no invocation is in
\* progress every directory under runs/ holds both its source document and
\* its generation_request.json.
C27_RunDirectoriesComplete ==
  Idle => \A d \in DOMAIN runs : runs[d].prd # Absent /\ runs[d].gen # Absent

\* C29: in every successful review call the intent of the returned
\* RevisionRequest is the intent the Step-1 classifier produced, and an
\* execution plan is built exactly when that Step-1 intent is revise or
\* both, whatever intent the Step-2 extraction answered.
C29_IntentIsStepOneIntent ==
  ReviewSucceeded =>
    /\ result.value.intent = call.intent1
    /\ call.artifacts.request_id # NoId =>
         ((call.plan # Absent) <=> (call.intent1 \in {"revise", "both"}))

\* C22: after a successful review call whose artifact set carries the
\* request_id R, runs/R/revision_request.json is the RevisionRequest the call
\* returned, whatever revision the run held before; when the artifact set
\* carries no request_id the call writes no file.
C22_RevisionPersistedUnderRun ==
  [][ ReviewSucceeds =>
        IF call'.artifacts.request_id = NoId
        THEN runs' = runs
        ELSE /\ call'.artifacts.request_id \in DOMAIN runs'
             /\ runs'[call'.artifacts.request_id].rev = result'.value ]_vars

\* A review call has replaced the revision an earlier day left in the run.
C22_Witness ==
  /\ ReviewSucceeded
  /\ call.artifacts.request_id = Name("RUN", Yesterday, <<0, 0, 5>>)
  /\ runs[call.artifacts.request_id].rev = result.value
  /\ result.value.request_id = Name("REV", Today, <<0, 0, 1>>)

\* C23: the variables a generate call passes to the oracle are those any
\* other call would pass that starts from the same storage state with the
\* same document and the same include_duplicate_scan value: no other
\* run_config key reaches the oracle.
C23_OnlyDuplicateScanReachesOracle ==
  [][ (call'.op = "generate" /\ call'.asked # <<>>) =>
        \A other \in RunConfigs :
          IncludeDuplicateScan(other) = IncludeDuplicateScan(call'.run_config) =>
            call'.input = GenerationInput(call'.prd_text,
                                          PrdSource(NextRunId(runs, Today)),
                                          Today, other, Absent) ]_vars

\* A generate call whose run_config asks for temperature 1 has invoked the
\* oracle.
C23_Witness ==
  /\ call.op = "generate"
  /\ call.asked = <<"generation">>
  /\ call.run_config.temperature = Some(1)
  /\ DOMAIN call.input = {"prd_text", "prd_source", "today", "include_duplicate_scan",
                          "existing_suite_index_path"}

\* The directories whose content the step changes or creates.
TouchedDirs == { d \in DOMAIN runs' : IF d \in DOMAIN runs THEN runs'[d] # runs[d] ELSE TRUE }

\* C24: a review call, successful or failed, leaves .current_run, every
\* source document and every generation_request.json as they were; it
\* writes at most revision_request.json and execution_plan.json of one run
\* directory; and no step of any call removes a run directory.
C24_ReviewWritesOnlyRevisionFiles ==
  [][ /\ DOMAIN runs \subseteq DOMAIN runs'
      /\ call'.op = "review" =>
           /\ current_run' = current_run
           /\ Cardinality(TouchedDirs) <= 1
           /\ \A d \in DOMAIN runs' :
                LET before == IF d \in DOMAIN runs THEN runs[d] ELSE EmptyDir
                IN  runs'[d].prd = before.prd /\ runs'[d].gen = before.gen ]_vars

\* A review call has written a revision and a plan into a run that holds
\* its document and its generation_request.json, with the pointer set.
C24_Witness ==
  /\ ReviewSucceeded
  /\ call.plan # Absent
  /\ current_run # Absent
  /\ runs[call.artifacts.request_id].prd # Absent
  /\ runs[call.artifacts.request_id].gen # Absent
  /\ runs[call.artifacts.request_id].plan # Absent

\* C25: with one call at a time, a generate call changes no directory that
\* was there when it started: the directory it writes into is new, so the
\* source document and the generation_request.json of earlier runs stay.
C25_GenerateWritesFreshDirectory ==
  [][ call'.op = "generate" =>
        /\ \A d \in DOMAIN runs : d \in DOMAIN runs' /\ runs'[d] = runs[d]
        /\ GenerateSucceeds => result'.value.request_id \notin DOMAIN runs ]_vars

\* A generate call has succeeded beside an earlier run 002 whose number is
\* above the lowest free one; the earlier document is still there.
C25_Witness ==
  /\ GenerateSucceeded
  /\ result.value.request_id = Name("RUN", Today, <<0, 0, 3>>)
  /\ Name("RUN", Today, <<0, 0, 2>>) \in DOMAIN runs
  /\ runs[Name("RUN", Today, <<0, 0, 2>>)].prd = Text(<<"A">>)
  /\ runs[Name("RUN", Today, <<0, 0, 2>>)].gen
       = PriorGeneration(Name("RUN", Today, <<0, 0, 2>>))

\* C26: of the successful review calls of one date, made one after the
\* other, no two return the same REV request_id: the id a call returns is
\* not the id the next call allocates.
C26_RevIdsNeverRepeat ==
  [][ ReviewSucceeds =>
        Name("REV", Today, Format03d(NextRevSeq(runs', Today))) # result'.value.request_id
    ]_vars

\* C28: starting from an empty base directory, in every state that
\* concurrent generate and review invocations can reach, a .current_run
\* that exists names a run that has a generation_request.json, and no
\* auto-loading review raises the missing-artifact error.
C28_PointerNamesGeneratedRun ==
  /\ current_run # Absent =>
       (current_run \in DOMAIN runs /\ runs[current_run].gen # Absent)
  /\ \A p \in DOMAIN result : result[p] # Raised("review", "FileNotFoundError")

\* C30: once two concurrent generate invocations have both finished, the
\* source document and the generation_request.json of every run directory
\* they wrote into come from one and the same invocation.
C30_RunDirectoryHasOneWriter ==
  (\A p \in Invocations : call[p].pc = "done") =>
    \A d \in { call[p].request_id : p \in Invocations } \cap DOMAIN runs :
      runs[d].gen # Absent =>
        \E p \in Invocations :
          runs[d].prd = call[p].prd_text /\ runs[d].gen = call[p].output

====
